---- MODULE Spec2Model ----
(***************************************************************************)
(* Model of the batch transcoding scheduler of mmutils (transcoder.py):    *)
(* Scheduler, the Encoder task and the PipeEncoderHandle it produces, the  *)
(* external decoder/encoder processes and the output files they own; and   *)
(* of the older slot-based runner (tool.py): Subprocess, SubprocessManager.*)
(***************************************************************************)
EXTENDS Integers, Sequences, FiniteSets, TLC

\* ------------------------------------------------------------------ bounds
\* number of tasks the job source yields in the general specification
MaxJobs == 2
\* largest value of -j/--parallel explored
MaxParallel == 2
\* readings of time.time() are capped at started_at + MaxTime
MaxTime == 1
\* number of graceful_termination calls explored
MaxTerminations == 1
\* number of starts that fail in one run
MaxFaults == 2
\* number of tasks one schedule_tasks call enqueues in SpecEta
EtaBatch == 6

\* number of slots (addSlot calls) explored for SubprocessManager
MaxSlots == 2
\* number of jobs explored for SubprocessManager, callbacks' jobs included
MaxToolJobs == 3
\* number of fork() calls that raise in one run of SubprocessManager
MaxForkFailures == 1
\* number of paths on the command line of tool.py
MaxPaths == 2
\* number of flac files in a directory given to tool.py
MaxDirFiles == 2

\* guesstimate gives no ETA before this many tasks have completed
EtaMinTasks == 10

\* with --progress the status line is printed every this many loop turns
ProgressEvery == 20

\* st_size of the n-th input file, for each job source explored
Sources ==
    {[n \in 1..MaxJobs |-> 10 * n],
     [n \in 1..MaxJobs |-> 0],
     [n \in 1..MaxJobs |-> IF n % 2 = 0 THEN 0 ELSE 10]}

\* output files that exist before the run: none, one, all
Existing == {{}, {2}, 1..MaxJobs}

\* Popen.poll() of a process that has not exited
None == -1
ReturnCodes == {0, 1}

VARIABLES
    pending_tasks,    \* Scheduler.pending_tasks: sequence of tasks [id, weight]
    running_tasks,    \* Scheduler.running_tasks: sequence of handles
    max_tasks,        \* Scheduler.max_tasks
    started_at,       \* Scheduler.started_at
    tasks_completed,  \* Scheduler.tasks_completed
    total_weight,     \* Scheduler.total_weight
    done_weight,      \* Scheduler.done_weight
    dry_run,          \* kwargs threaded into every task by task_generator
    skip_existing,
    now,              \* time.time()
    source,           \* the job source: st_size of the n-th file it yields
    nscheduled,       \* number of tasks scheduled so far (the last task id)
    files,            \* ids of the tasks whose output file exists
    out_dir,          \* whether the output directory exists
    procs,            \* live external processes, <<task id, role>>
    dropped,          \* ids of the tasks whose start raised
    effects,          \* per task: what starting it did outside the scheduler
    term_calls,       \* per task: number of term() calls on its handle
    terminations,     \* number of graceful_termination calls
    term_raised,      \* whether the last graceful_termination raised
    call_log,         \* ids of the tasks called (new_task()), in order
    poll_ret,         \* what the last Scheduler.poll returned ("none" before)
    verbose,          \* whether the log level lets logger.info through (-vv)
    status_logged,    \* whether the last Scheduler.poll logged its status line
    pc,               \* where __main__ is: "discover", "loop", "print", "except",
                      \* "done", "interrupted", "crashed"
    exit_status,      \* the exit status of the program (None while it runs)
    layout,           \* number of tasks in each directory scan_dir walks, in order
    ndirs_done,       \* number of directories scan_dir has finished
    progress,         \* args.progress: 1 with --progress, else 0
    loop_i,           \* the counter i of the polling loop of __main__
    processes,        \* SubprocessManager.processes: the Subprocess slots
    idles,            \* SubprocessManager.idles: slot numbers, in list order
    jobs_pending,     \* SubprocessManager.pending: job descriptions, in order
    tool_procs,       \* live processes forked by tool.py, <<job id, role>>
    njobs,            \* number of job descriptions created so far
    assigned,         \* ids of the jobs passed to Subprocess.assign, in order
    busy_error,       \* whether assign raised "Attempt to assign ... busy"
    cb_calls,         \* per job: number of calls of its callbackOnDone
    fork_failures,    \* number of fork() calls that raised
    tool_pc,          \* position of Tool: "init", "root", "dir", "loop", ...
    paths,            \* Tool.dirs: per path "dir" or, not a directory, "file"
    path_i,           \* number of paths runRootOnDir has taken
    dir_files,        \* number of flac files in each directory
    node_i,           \* number of nodes runOnDir has taken from its listing
    found,            \* len(files) of runOnDir
    replay_gain,      \* Tool.hasMultiJobs: --replay-gain given
    encoder           \* the kind of job of the encoder in Tool.fileJobs

vars == <<pending_tasks, running_tasks, max_tasks, started_at, tasks_completed,
          total_weight, done_weight, dry_run, skip_existing, now, source,
          nscheduled, files, out_dir, procs, dropped, effects, term_calls,
          terminations, term_raised, call_log, poll_ret, verbose,
          status_logged, pc, exit_status, layout, ndirs_done, progress,
          loop_i, processes, idles, jobs_pending, tool_procs, njobs, assigned,
          busy_error, cb_calls, fork_failures, tool_pc, paths, path_i,
          dir_files, node_i, found, replay_gain, encoder>>

\* the state of transcoder.py
transcoder ==
    <<pending_tasks, running_tasks, max_tasks, started_at, tasks_completed,
      total_weight, done_weight, dry_run, skip_existing, now, source,
      nscheduled, files, out_dir, procs, dropped, effects, term_calls,
      terminations, term_raised, call_log, poll_ret, verbose, status_logged,
      pc, exit_status, layout, ndirs_done, progress, loop_i>>

\* the state of tool.py
tool == <<processes, idles, jobs_pending, tool_procs, njobs, assigned,
          busy_error, cb_calls, fork_failures>>

\* the state of a run of Tool
toolrun == <<tool_pc, paths, path_i, dir_files, node_i, found, replay_gain,
             encoder>>

\* the state of __main__ around the scheduler
driver == <<pc, exit_status, layout, ndirs_done, progress, loop_i>>

\* ----------------------------------------------------------------- helpers
Range(s) == {s[i] : i \in 1..Len(s)}

Ids(s) == {s[i].id : i \in 1..Len(s)}

RECURSIVE SumWeights(_)
SumWeights(s) == IF s = <<>> THEN 0 ELSE Head(s).weight + SumWeights(Tail(s))

Front(s) == SubSeq(s, 1, Len(s) - 1)

Last(s) == s[Len(s)]

\* list.remove(x): drops the first element equal to x
RECURSIVE Remove(_, _)
Remove(s, x) ==
    IF s = <<>> THEN <<>>
    ELSE IF Head(s) = x THEN Tail(s)
    ELSE <<Head(s)>> \o Remove(Tail(s), x)

\* one more reading of the clock, at least one tick later
ClockAdvance(t) == IF t < started_at + MaxTime THEN t + 1 ELSE t

\* ------------------------------------------------------------ task handles
\* DummySubprocess.poll
DummySubprocess_poll == 0

\* TaskHandle.term: super().term() finds no term in subprocess.Popen
TaskHandle_term == "AttributeError"

\* TaskHandle.poll of a handle: the dummy poll after skip_init, else Popen.poll
TaskHandle_poll(h) == IF h.skipped THEN DummySubprocess_poll ELSE h.returncode

\* SubprocessHandle.__init__ for the process `role` of a pipeline
SubprocessHandle_init(role, dry, fault) ==
    IF dry THEN [raised |-> FALSE, skipped |-> TRUE, live |-> FALSE]
    ELSE IF fault = role THEN [raised |-> TRUE, skipped |-> FALSE, live |-> FALSE]
    ELSE [raised |-> FALSE, skipped |-> FALSE, live |-> TRUE]

\* EncoderHandle._ensure_output_file: makedirs when the directory is missing
EncoderHandle_ensure_output_file(dir_exists, fault) ==
    IF dir_exists THEN [raised |-> FALSE, dir |-> TRUE, effects |-> {}]
    ELSE IF fault = "makedirs" THEN [raised |-> TRUE, dir |-> FALSE, effects |-> {}]
    ELSE [raised |-> FALSE, dir |-> TRUE, effects |-> {"makedirs"}]

\* the except clause of PipeEncoderHandle.__init__: in_pipe.kill() and re-raise
\* (and the variant that re-raises without the kill)
EncoderInitFailed_NoKill(live, id) == live

EncoderInitFailed(live, id) == live \ {<<id, "flac">>}

\* PipeEncoderHandle.__init__ (through OpusEncoderHandle / VorbisEncoderHandle)
\* Result: raised, the handle, the directory state, the effects, the processes
\* left alive.
PipeEncoderHandle_init(task, dir_exists, file_exists, skip, dry, fault) ==
    LET ens == EncoderHandle_ensure_output_file(dir_exists, fault)
        dec == SubprocessHandle_init("flac", dry, fault)
        enc == SubprocessHandle_init("encoder", dry, fault)
        nohandle == [id |-> task.id, weight |-> 0, skipped |-> FALSE,
                     in_pipe |-> "none", returncode |-> None]
        decfx == IF dec.live THEN {"flac"} ELSE {}
        declive == IF dec.live THEN {<<task.id, "flac">>} ELSE {}
    IN  IF ens.raised
        THEN [raised |-> TRUE, handle |-> nohandle, dir |-> ens.dir,
              effects |-> ens.effects, live |-> {}]
        ELSE IF file_exists /\ skip
        THEN [raised |-> FALSE,
              handle |-> [id |-> task.id, weight |-> 0, skipped |-> TRUE,
                          in_pipe |-> "none", returncode |-> None],
              dir |-> ens.dir, effects |-> ens.effects, live |-> {}]
        ELSE IF dec.raised
        THEN [raised |-> TRUE, handle |-> nohandle, dir |-> ens.dir,
              effects |-> ens.effects, live |-> {}]
        ELSE IF enc.raised
        THEN [raised |-> TRUE, handle |-> nohandle, dir |-> ens.dir,
              effects |-> ens.effects \cup decfx,
              live |-> EncoderInitFailed(declive, task.id)]
        ELSE [raised |-> FALSE,
              handle |-> [id |-> task.id, weight |-> task.weight,
                          skipped |-> enc.skipped,
                          in_pipe |-> IF dec.skipped THEN "dummy" ELSE "proc",
                          returncode |-> None],
              dir |-> ens.dir,
              effects |-> ens.effects \cup decfx
                          \cup (IF enc.live THEN {"encoder"} ELSE {}),
              live |-> declive
                       \cup (IF enc.live THEN {<<task.id, "encoder">>} ELSE {})]

\* Encoder._get_metadata: check_output runs metaflac and waits for it
Encoder_get_metadata(fault) ==
    [raised |-> fault = "metaflac", effects |-> {"metaflac"}]

\* Encoder.__call__: metadata first, then the handle class
Encoder_call(task, dir_exists, file_exists, skip, dry, fault) ==
    LET md == Encoder_get_metadata(fault)
        h == PipeEncoderHandle_init(task, dir_exists, file_exists, skip, dry, fault)
    IN  IF md.raised
        THEN [raised |-> TRUE, handle |-> h.handle, dir |-> dir_exists,
              effects |-> md.effects, live |-> {}]
        ELSE [h EXCEPT !.effects = md.effects \cup h.effects]

\* PipeEncoderHandle.term on handle h, given the files and the live processes
PipeEncoderHandle_term(h, fs, live) ==
    IF h.weight = 0
    THEN [raised |-> FALSE, files |-> fs, procs |-> live]
    ELSE IF TaskHandle_term = "AttributeError"
    THEN [raised |-> TRUE, files |-> fs, procs |-> live]   \* self.in_pipe.term()
    ELSE [raised |-> FALSE, files |-> fs \ {h.id},
          procs |-> live \ {<<h.id, "flac">>, <<h.id, "encoder">>}]

\* --------------------------------------------------------------- scheduler
\* the admission test of the while loop of Scheduler.poll, and two off-by-one
\* variants of it
SlotFree_OffByOne(nrunning, limit) == nrunning <= limit

SlotFree_Strict(nrunning, limit) == nrunning < limit - 1

SlotFree(nrunning, limit) == nrunning < limit

\* pending_tasks.pop(): the task taken and the tasks left (and pop(0))
PopTask_Fifo(pending) == [task |-> Head(pending), rest |-> Tail(pending)]

PopTask(pending) == [task |-> Last(pending), rest |-> Front(pending)]

\* total_weight after a task became a handle (and the variant that forgets to
\* add the weight of the handle)
Reconcile_NoHandleWeight(total, task, handle) == total - task.weight

\* (and the variant that leaves total_weight at the nominal weight)
Reconcile_Nominal(total, task, handle) == total

Reconcile(total, task, handle) == (total - task.weight) + handle.weight

\* done_weight after a handle completed (and the variant with the sign wrong)
AddDone_Subtract(done, handle) == done - handle.weight

AddDone(done, handle) == done + handle.weight

\* the body of "if returncode is not None" in Scheduler.poll: the handle is
\* counted and removed; only a zero returncode sets `changed` (and the variant
\* that puts a failed job back into pending_tasks instead of counting it)
Reap_Requeue(s, task, returncode) ==
    IF returncode = 0
    THEN [s EXCEPT !.completed = @ + 1,
                   !.done = AddDone(@, task),
                   !.running = Remove(@, task),
                   !.changed = TRUE]
    ELSE [s EXCEPT !.running = Remove(@, task),
                   !.pending = Append(@, [id |-> task.id, weight |-> task.weight])]

\* (the variant that takes the weight of a completed handle out of
\* total_weight)
Reap_Settle(s, task, returncode) ==
    [s EXCEPT !.completed = @ + 1,
              !.done = AddDone(@, task),
              !.total = @ - task.weight,
              !.running = Remove(@, task),
              !.changed = (@ \/ returncode = 0)]

\* (the variant that counts only the handles that succeeded)
Reap_SuccessOnly(s, task, returncode) ==
    [s EXCEPT !.completed = IF returncode = 0 THEN @ + 1 ELSE @,
              !.done = AddDone(@, task),
              !.running = Remove(@, task),
              !.changed = (@ \/ returncode = 0)]

Reap(s, task, returncode) ==
    [s EXCEPT !.completed = @ + 1,
              !.done = AddDone(@, task),
              !.running = Remove(@, task),
              !.changed = (@ \/ returncode = 0)]

\* the for loop of Scheduler.poll over list(running_tasks), on record s
RECURSIVE ReapLoop(_, _)
ReapLoop(tasks, s) ==
    IF tasks = <<>> THEN s
    ELSE LET task == Head(tasks)
             returncode == TaskHandle_poll(task)
         IN  IF returncode # None
             THEN ReapLoop(Tail(tasks), Reap(s, task, returncode))
             ELSE ReapLoop(Tail(tasks), s)

\* one iteration of the while loop of Scheduler.poll under fault f, with the
\* except clause keeping the task that failed to start among the running ones
StartNext_KeepFailed(s, f) ==
    LET p == PopTask(s.pending)
        new_task == p.task
        r == Encoder_call(new_task, s.dir, new_task.id \in s.files,
                          skip_existing, dry_run, f)
        base == [s EXCEPT !.pending = p.rest,
                          !.dir = r.dir,
                          !.procs = @ \cup r.live,
                          !.effects[new_task.id] = r.effects,
                          !.log = Append(@, new_task.id),
                          !.clock = ClockAdvance(@)]
    IN  IF r.raised
        THEN [base EXCEPT !.dropped = @ \cup {new_task.id},
                          !.running = Append(@, r.handle)]
        ELSE [base EXCEPT !.total = Reconcile(@, new_task, r.handle),
                          !.running = Append(@, r.handle),
                          !.changed = TRUE]

\* (the variant whose except clause takes the weight of the task that failed
\* to start out of total_weight)
StartNext_DropSubtracts(s, f) ==
    LET p == PopTask(s.pending)
        new_task == p.task
        r == Encoder_call(new_task, s.dir, new_task.id \in s.files,
                          skip_existing, dry_run, f)
        base == [s EXCEPT !.pending = p.rest,
                          !.dir = r.dir,
                          !.procs = @ \cup r.live,
                          !.effects[new_task.id] = r.effects,
                          !.log = Append(@, new_task.id),
                          !.clock = ClockAdvance(@)]
    IN  IF r.raised
        THEN [base EXCEPT !.dropped = @ \cup {new_task.id},
                          !.total = @ - new_task.weight]
        ELSE [base EXCEPT !.total = Reconcile(@, new_task, r.handle),
                          !.running = Append(@, r.handle),
                          !.changed = TRUE]

\* one iteration of the while loop of Scheduler.poll under fault f
StartNext(s, f) ==
    LET p == PopTask(s.pending)
        new_task == p.task
        r == Encoder_call(new_task, s.dir, new_task.id \in s.files,
                          skip_existing, dry_run, f)
        base == [s EXCEPT !.pending = p.rest,
                          !.dir = r.dir,
                          !.procs = @ \cup r.live,
                          !.effects[new_task.id] = r.effects,
                          !.log = Append(@, new_task.id),
                          !.clock = ClockAdvance(@)]
    IN  IF r.raised
        THEN [base EXCEPT !.dropped = @ \cup {new_task.id}]
        ELSE [base EXCEPT !.total = Reconcile(@, new_task, r.handle),
                          !.running = Append(@, r.handle),
                          !.changed = TRUE]

\* the external operations that can fail when the next task is called: those
\* the call executes, while the run has faults left
FaultsOf(s) ==
    LET task == PopTask(s.pending).task
        skips == skip_existing /\ task.id \in s.files
    IN  IF Cardinality(s.dropped) >= MaxFaults THEN {"none"}
        ELSE {"none", "metaflac"}
             \cup (IF s.dir THEN {} ELSE {"makedirs"})
             \cup (IF dry_run \/ skips THEN {} ELSE {"flac", "encoder"})

\* the while loop of Scheduler.poll: every outcome of the starts it makes
RECURSIVE StartLoop(_)
StartLoop(s) ==
    IF SlotFree(Len(s.running), max_tasks) /\ Len(s.pending) > 0
    THEN UNION {StartLoop(t) : t \in {StartNext(s, f) : f \in FaultsOf(s)}}
    ELSE {s}

PollState ==
    [pending |-> pending_tasks, running |-> running_tasks,
     completed |-> tasks_completed, done |-> done_weight, total |-> total_weight,
     dir |-> out_dir, files |-> files, procs |-> procs, effects |-> effects,
     dropped |-> dropped, log |-> call_log, clock |-> now, changed |-> FALSE]

\* the value Scheduler.poll returns (and the variant that forgets the running
\* tasks)
Outstanding_PendingOnly(running, pending) == Len(pending) > 0

Outstanding(running, pending) == Len(running) > 0 \/ Len(pending) > 0

\* Scheduler.poll: `changed` decides whether poll logs its status line
\* (logger.info, which the log level lets through only with -vv); the one value
\* returned is Outstanding
Scheduler_poll ==
    \E reaped \in {ReapLoop(running_tasks, PollState)} : \E s \in StartLoop(reaped) :
        /\ pending_tasks' = s.pending
        /\ running_tasks' = s.running
        /\ tasks_completed' = s.completed
        /\ done_weight' = s.done
        /\ total_weight' = s.total
        /\ out_dir' = s.dir
        /\ procs' = s.procs
        /\ effects' = s.effects
        /\ dropped' = s.dropped
        /\ call_log' = s.log
        /\ now' = s.clock
        /\ poll_ret' = IF Outstanding(s.running, s.pending)
                       THEN "True" ELSE "False"
        /\ status_logged' = (verbose /\ s.changed)
        /\ UNCHANGED <<max_tasks, started_at, dry_run, skip_existing, source,
                       nscheduled, files, term_calls, terminations, term_raised,
                       verbose>>

\* a call of Scheduler.poll that is not the loop test of __main__
Poll == Scheduler_poll /\ UNCHANGED <<driver, tool, toolrun>>

\* the two assignments of Scheduler.schedule (and the variant that puts the
\* task at the front of the list)
Scheduler_schedule_Front(pending, total, task) ==
    [pending |-> <<task>> \o pending, total |-> total + task.weight]

\* (the variant that forgets the weight)
Scheduler_schedule_NoWeight(pending, total, task) ==
    [pending |-> Append(pending, task), total |-> total]

Scheduler_schedule(pending, total, task) ==
    [pending |-> Append(pending, task), total |-> total + task.weight]

\* Scheduler.schedule(task), task = Encoder(...) of weight w
Schedule(w) ==
    /\ nscheduled < Len(source)
    /\ w = source[nscheduled + 1]
    /\ nscheduled' = nscheduled + 1
    /\ LET r == Scheduler_schedule(pending_tasks, total_weight,
                                   [id |-> nscheduled + 1, weight |-> w])
       IN  /\ pending_tasks' = r.pending
           /\ total_weight' = r.total
    /\ effects' = Append(effects, {})
    /\ term_calls' = Append(term_calls, 0)
    /\ UNCHANGED <<running_tasks, max_tasks, started_at, tasks_completed,
                   done_weight, dry_run, skip_existing, now, source, files,
                   out_dir, procs, dropped, terminations, term_raised,
                   call_log, poll_ret, verbose,
                   status_logged, driver, tool, toolrun>>

\* Scheduler.schedule_tasks(iterable) for the next n tasks of the job source
ScheduleTasks(n) ==
    /\ n > 0
    /\ nscheduled + n <= Len(source)
    /\ LET new == [k \in 1..n |->
                     [id |-> nscheduled + k, weight |-> source[nscheduled + k]]]
       IN  /\ pending_tasks' = pending_tasks \o new
           /\ total_weight' = total_weight + SumWeights(new)
    /\ nscheduled' = nscheduled + n
    /\ effects' = effects \o [k \in 1..n |-> {}]
    /\ term_calls' = term_calls \o [k \in 1..n |-> 0]
    /\ UNCHANGED <<running_tasks, max_tasks, started_at, tasks_completed,
                   done_weight, dry_run, skip_existing, now, source, files,
                   out_dir, procs, dropped, terminations, term_raised,
                   call_log, poll_ret, verbose,
                   status_logged, driver, tool, toolrun>>

\* the ETA of guesstimate: none, a ZeroDivisionError, or the quotient num/den
NoEta == [kind |-> "None", num |-> 0, den |-> 1]

DivisionError == [kind |-> "ZeroDivisionError", num |-> 0, den |-> 0]

\* a / (n / d), the two divisions of guesstimate
Quotient(a, n, d) ==
    IF d = 0 \/ n = 0 THEN DivisionError
    ELSE IF n * d > 0 THEN [kind |-> "value", num |-> a * d, den |-> n]
    ELSE [kind |-> "value", num |-> 0 - (a * d), den |-> 0 - n]

\* guesstimate with "and" for the "or" of its test
Scheduler_guesstimate_And ==
    LET delta == now - started_at
    IN  [done |-> tasks_completed,
         pending |-> Len(pending_tasks),
         running |-> Len(running_tasks),
         eta |-> IF tasks_completed < EtaMinTasks /\ done_weight = 0
                 THEN NoEta
                 ELSE Quotient(total_weight - done_weight, done_weight, delta)]

\* Scheduler.guesstimate
Scheduler_guesstimate ==
    LET delta == now - started_at
    IN  [done |-> tasks_completed,
         pending |-> Len(pending_tasks),
         running |-> Len(running_tasks),
         eta |-> IF tasks_completed < EtaMinTasks \/ done_weight = 0
                 THEN NoEta
                 ELSE Quotient(total_weight - done_weight, done_weight, delta)]

\* the for loop of graceful_termination over running_tasks, on record s
RECURSIVE TermLoop(_, _)
TermLoop(tasks, s) ==
    IF tasks = <<>> THEN s
    ELSE LET task == Head(tasks)
             r == PipeEncoderHandle_term(task, s.files, s.procs)
             t == [s EXCEPT !.calls[task.id] = @ + 1,
                            !.files = r.files,
                            !.procs = r.procs]
         IN  IF r.raised THEN [t EXCEPT !.raised = TRUE]
             ELSE TermLoop(Tail(tasks), t)

\* Scheduler.graceful_termination: the lists are cleared unless a term() raised
Scheduler_graceful_termination ==
    /\ terminations < MaxTerminations
    /\ LET s == TermLoop(running_tasks,
                    [calls |-> term_calls, files |-> files, procs |-> procs,
                     raised |-> FALSE])
       IN  /\ term_calls' = s.calls
           /\ files' = s.files
           /\ procs' = s.procs
           /\ term_raised' = s.raised
           /\ running_tasks' = IF s.raised THEN running_tasks ELSE <<>>
           /\ pending_tasks' = IF s.raised THEN pending_tasks ELSE <<>>
    /\ terminations' = terminations + 1
    /\ UNCHANGED <<max_tasks, started_at, tasks_completed, total_weight,
                   done_weight, dry_run, skip_existing, now, source,
                   nscheduled, out_dir, dropped, effects, call_log, poll_ret,
                   verbose, status_logged>>

\* a call of Scheduler.graceful_termination on its own
GracefulTermination ==
    Scheduler_graceful_termination /\ UNCHANGED <<driver, tool, toolrun>>

\* ------------------------------------------------------------- environment
\* the encoder process of a running handle exits with returncode rc; it
\* succeeds only after it has read its input to the end (the decoder has
\* exited) and has written its output file
EncoderExit(i, rc) ==
    /\ i \in 1..Len(running_tasks)
    /\ <<running_tasks[i].id, "encoder">> \in procs
    /\ rc = 0 => /\ <<running_tasks[i].id, "flac">> \notin procs
                 /\ running_tasks[i].id \in files
    /\ procs' = procs \ {<<running_tasks[i].id, "encoder">>}
    /\ running_tasks' = [running_tasks EXCEPT ![i].returncode = rc]
    /\ UNCHANGED <<pending_tasks, max_tasks, started_at, tasks_completed,
                   total_weight, done_weight, dry_run, skip_existing, now,
                   source, nscheduled, files, out_dir, dropped, effects,
                   term_calls, terminations, term_raised, call_log, poll_ret,
                   verbose, status_logged, driver, tool, toolrun>>

\* a decoder process exits
DecoderExit(id) ==
    /\ <<id, "flac">> \in procs
    /\ procs' = procs \ {<<id, "flac">>}
    /\ UNCHANGED <<pending_tasks, running_tasks, max_tasks, started_at,
                   tasks_completed, total_weight, done_weight, dry_run,
                   skip_existing, now, source, nscheduled, files, out_dir,
                   dropped, effects, term_calls, terminations, term_raised,
                   call_log, poll_ret, verbose,
                   status_logged, driver, tool, toolrun>>

\* a live encoder process creates its output file
EncoderWrites(id) ==
    /\ <<id, "encoder">> \in procs
    /\ id \notin files
    /\ files' = files \cup {id}
    /\ UNCHANGED <<pending_tasks, running_tasks, max_tasks, started_at,
                   tasks_completed, total_weight, done_weight, dry_run,
                   skip_existing, now, source, nscheduled, out_dir, procs,
                   dropped, effects, term_calls, terminations, term_raised,
                   call_log, poll_ret, verbose,
                   status_logged, driver, tool, toolrun>>

\* time passes (time.sleep in the driving loop)
Tick ==
    /\ now < started_at + MaxTime
    /\ now' = now + 1
    /\ UNCHANGED <<pending_tasks, running_tasks, max_tasks, started_at,
                   tasks_completed, total_weight, done_weight, dry_run,
                   skip_existing, source, nscheduled, files, out_dir, procs,
                   dropped, effects, term_calls, terminations, term_raised,
                   call_log, poll_ret, verbose,
                   status_logged, driver, tool, toolrun>>

\* ------------------------------------------------------- tool.py: the slots
\* Subprocess.instance of a slot without a process
NoInstance == 0

\* the kinds of job: "plain" is a JobDescription (fork is one Popen), "opus"
\* an OpusJob (fork is flac -dc piped into opusenc, the instance)
JobKinds == {"plain", "opus"}

\* what the callbackOnDone of a job adds when called: nothing ("none": there
\* is no callback), or, for the FinishCallback of a replay-gain job, the
\* encoder job of that kind
Callbacks == {"none"} \cup JobKinds

\* SubprocessManager.__init__
InitSubprocessManager ==
    /\ processes = <<>>
    /\ idles = <<>>
    /\ jobs_pending = <<>>
    /\ tool_procs = {}
    /\ njobs = 0
    /\ assigned = <<>>
    /\ busy_error = FALSE
    /\ cb_calls = <<>>
    /\ fork_failures = 0

\* Tool before __init__
InitToolRun ==
    /\ tool_pc = "init"
    /\ paths = <<>>
    /\ path_i = 0
    /\ dir_files = 0
    /\ node_i = 0
    /\ found = 0
    /\ replay_gain = FALSE
    /\ encoder = "plain"

\* the processes fork() of a job leaves alive
Forked(job) ==
    IF job.kind = "opus" THEN {<<job.id, "flac">>, <<job.id, "main">>}
    ELSE {<<job.id, "main">>}

\* Subprocess.poll of slot k on record st; the callback (FinishCallback) adds
\* the encoder job of each file of its fileList through addJob
Subprocess_poll(st, k) ==
    LET p == st.processes[k]
        called == p.callbackOnDone # "none"
        added == IF called THEN p.fileList ELSE 0
    IN  IF p.instance = NoInstance
        THEN [st EXCEPT !.processes[k].ready = TRUE]
        ELSE IF <<p.instance, "main">> \notin st.procs
        THEN [st EXCEPT
                !.processes[k].ready = TRUE,
                !.processes[k].instance = NoInstance,
                !.calls = IF called
                          THEN [@ EXCEPT ![p.instance] = @ + 1]
                                 \o [i \in 1..added |-> 0]
                          ELSE @,
                !.pending = @ \o [i \in 1..added |->
                                    [id |-> st.njobs + i,
                                     kind |-> p.callbackOnDone,
                                     then |-> "none", fileList |-> 0]],
                !.njobs = @ + added]
        ELSE [st EXCEPT !.processes[k].ready = FALSE]

\* the for loop of SubprocessManager.poll from slot k on
RECURSIVE PollSlots(_, _)
PollSlots(st, k) ==
    IF k > Len(st.processes) THEN st
    ELSE LET t == Subprocess_poll(st, k)
         IN  PollSlots(IF t.processes[k].ready /\ k \notin Range(t.idles)
                       THEN [t EXCEPT !.idles = Append(@, k)]
                       ELSE t,
                       k + 1)

\* self.pending.pop(0): the job taken and the jobs left (and pop())
NextJob_Lifo(pending) == [job |-> Last(pending), rest |-> Front(pending)]

NextJob(pending) == [job |-> Head(pending), rest |-> Tail(pending)]

\* one turn of the while loop of SubprocessManager.poll: idles.pop(), then
\* Subprocess.assign of the next job, whose fork() raises under fault f: at
\* its first Popen ("fork") or, the decoder started, at its second ("opusenc")
AssignNext(st, f) ==
    LET k == Last(st.idles)
        n == NextJob(st.pending)
        p == st.processes[k]
        base == [st EXCEPT !.idles = Front(@),
                           !.pending = n.rest,
                           !.assigned = Append(@, n.job.id)]
    IN  IF ~p.ready
        THEN [base EXCEPT !.busy = TRUE, !.raised = TRUE]
        ELSE IF f = "fork"
        THEN [base EXCEPT !.failures = @ + 1, !.raised = TRUE]
        ELSE IF f = "opusenc" /\ n.job.kind = "opus"
        THEN [base EXCEPT !.procs = @ \cup {<<n.job.id, "flac">>},
                          !.failures = @ + 1, !.raised = TRUE]
        ELSE [base EXCEPT !.procs = @ \cup Forked(n.job),
                          !.processes[k].instance = n.job.id,
                          !.processes[k].ready = FALSE,
                          !.processes[k].callbackOnDone = n.job.then,
                          !.processes[k].fileList = n.job.fileList]

\* the while loop of SubprocessManager.poll: every outcome; an exception
\* leaves the loop
RECURSIVE AssignLoop(_)
AssignLoop(st) ==
    IF ~st.raised /\ Len(st.pending) > 0 /\ Len(st.idles) > 0
    THEN UNION {AssignLoop(t) :
                  t \in {AssignNext(st, f) :
                           f \in IF st.failures < MaxForkFailures
                                 THEN {"none", "fork", "opusenc"}
                                 ELSE {"none"}}}
    ELSE {st}

ManagerState ==
    [processes |-> processes, idles |-> idles, pending |-> jobs_pending,
     procs |-> tool_procs, njobs |-> njobs, assigned |-> assigned,
     busy |-> busy_error, calls |-> cb_calls, failures |-> fork_failures,
     raised |-> FALSE]

\* the manager as record st leaves it
ManagerBecomes(st) ==
    /\ processes' = st.processes
    /\ idles' = st.idles
    /\ jobs_pending' = st.pending
    /\ tool_procs' = st.procs
    /\ njobs' = st.njobs
    /\ assigned' = st.assigned
    /\ busy_error' = st.busy
    /\ cb_calls' = st.calls
    /\ fork_failures' = st.failures

\* SubprocessManager.poll on record st: every outcome
SubprocessManager_poll(st) == AssignLoop(PollSlots(st, 1))

\* SubprocessManager.poll
ManagerPoll ==
    /\ \E st \in SubprocessManager_poll(ManagerState) : ManagerBecomes(st)
    /\ UNCHANGED <<transcoder, toolrun>>

\* Subprocess.__init__
Subprocess_init ==
    [ready |-> TRUE, instance |-> NoInstance, callbackOnDone |-> "none",
     fileList |-> 0]

\* SubprocessManager.addSlot
AddSlot ==
    /\ Len(processes) < MaxSlots
    /\ processes' = Append(processes, Subprocess_init)
    /\ idles' = Append(idles, Len(processes) + 1)
    /\ UNCHANGED <<jobs_pending, tool_procs, njobs, assigned, busy_error,
                   cb_calls, fork_failures, transcoder, toolrun>>

\* the jobs that callbacks not yet called will add
CallbacksDue ==
    Cardinality({k \in 1..Len(jobs_pending) : jobs_pending[k].then # "none"})
      + Cardinality({k \in 1..Len(processes) :
                        /\ processes[k].instance # NoInstance
                        /\ processes[k].callbackOnDone # "none"})

\* SubprocessManager.addJob on record st of a new job description: of the
\* kind given, with a FinishCallback for n files that adds jobs of kind then
SubprocessManager_addJob(st, kind, then, n) ==
    [st EXCEPT !.njobs = @ + 1,
               !.pending = Append(@, [id |-> st.njobs + 1, kind |-> kind,
                                      then |-> then, fileList |-> n]),
               !.calls = Append(@, 0)]

\* SubprocessManager.addJob of a new job description, whose callback if any
\* is a FinishCallback for one file
AddJob(kind, then) ==
    /\ njobs + 1 + CallbacksDue + (IF then = "none" THEN 0 ELSE 1) <= MaxToolJobs
    /\ then # "none" => kind = "plain"
    /\ ManagerBecomes(SubprocessManager_addJob(
                          ManagerState, kind, then,
                          IF then = "none" THEN 0 ELSE 1))
    /\ UNCHANGED <<transcoder, toolrun>>

\* a process forked by tool.py exits
ToolProcessExit(id, role) ==
    /\ <<id, role>> \in tool_procs
    /\ tool_procs' = tool_procs \ {<<id, role>>}
    /\ UNCHANGED <<processes, idles, jobs_pending, njobs, assigned, busy_error,
                   cb_calls, fork_failures, transcoder, toolrun>>

\* -------------------------------------------------------- tool.py: the run
\* SubprocessManager.busy
SubprocessManager_busy ==
    Len(jobs_pending) > 0 \/ Len(idles) < Len(processes)

\* Tool.__init__ and parseArgs: one slot per -j, the paths, the jobs chosen
\* (one encoder, with or without --replay-gain); every directory given holds
\* the same number of flac files and nothing else
ToolParseArgs ==
    /\ tool_pc = "init"
    /\ \E j \in 1..MaxSlots :
          /\ processes' = [k \in 1..j |-> Subprocess_init]
          /\ idles' = [k \in 1..j |-> k]
    /\ \E n \in 1..MaxPaths : paths' \in [1..n -> {"dir", "file"}]
    /\ dir_files' \in 1..MaxDirFiles
    /\ replay_gain' \in BOOLEAN
    /\ encoder' \in JobKinds
    /\ tool_pc' = "root"
    /\ UNCHANGED <<jobs_pending, tool_procs, njobs, assigned, busy_error,
                   cb_calls, fork_failures, path_i, node_i, found, transcoder>>

\* Tool.runRootOnDir, one turn of the for loop up to the call of runOnDir:
\* a path that is not a directory ends runRootOnDir
ToolRootPath ==
    /\ tool_pc = "root"
    /\ path_i < Len(paths)
    /\ IF paths[path_i + 1] = "dir"
       THEN /\ tool_pc' = "dir"
            /\ path_i' = path_i + 1
            /\ node_i' = 0
            /\ found' = 0
       ELSE /\ tool_pc' = "returned"
            /\ UNCHANGED <<path_i, node_i, found>>
    /\ UNCHANGED <<tool, paths, dir_files, replay_gain, encoder, transcoder>>

\* Tool.runOnDir, one turn of the for loop: poll, then the flac file is
\* given to the encoder or, with replay gain, kept for the end of the loop;
\* an exception of poll is caught nowhere and ends the program
ToolNode ==
    /\ tool_pc = "dir"
    /\ node_i < dir_files
    /\ \E st \in SubprocessManager_poll(ManagerState) :
          IF st.raised
          THEN /\ ManagerBecomes(st)
               /\ tool_pc' = "crashed"
               /\ UNCHANGED <<node_i, found>>
          ELSE /\ ManagerBecomes(
                    IF replay_gain THEN st
                    ELSE SubprocessManager_addJob(st, encoder, "none", 0))
               /\ node_i' = node_i + 1
               /\ found' = IF replay_gain THEN found + 1 ELSE found
               /\ UNCHANGED tool_pc
    /\ UNCHANGED <<paths, path_i, dir_files, replay_gain, encoder, transcoder>>

\* Tool.runOnDir after the for loop: addMultiJobs with a FinishCallback for
\* the files kept
ToolDirEnd ==
    /\ tool_pc = "dir"
    /\ node_i = dir_files
    /\ IF found > 0
       THEN ManagerBecomes(SubprocessManager_addJob(
                               ManagerState, "plain", encoder, found))
       ELSE UNCHANGED tool
    /\ tool_pc' = "root"
    /\ UNCHANGED <<paths, path_i, dir_files, node_i, found, replay_gain,
                   encoder, transcoder>>

\* Tool.runRootOnDir: the for loop is over
ToolRootEnd ==
    /\ tool_pc = "root"
    /\ path_i = Len(paths)
    /\ tool_pc' = "loop"
    /\ UNCHANGED <<tool, paths, path_i, dir_files, node_i, found, replay_gain,
                   encoder, transcoder>>

\* Tool.runRootOnDir, one turn of the while loop; an exception of poll is
\* caught nowhere and ends the program
ToolLoop ==
    /\ tool_pc = "loop"
    /\ SubprocessManager_busy
    /\ \E st \in SubprocessManager_poll(ManagerState) :
          /\ ManagerBecomes(st)
          /\ tool_pc' = IF st.raised THEN "crashed" ELSE tool_pc
    /\ UNCHANGED <<paths, path_i, dir_files, node_i, found, replay_gain,
                   encoder, transcoder>>

\* Tool.runRootOnDir: busy() is false, the while loop and the run are over
ToolDone ==
    /\ tool_pc = "loop"
    /\ ~SubprocessManager_busy
    /\ tool_pc' = "done"
    /\ UNCHANGED <<tool, paths, path_i, dir_files, node_i, found, replay_gain,
                   encoder, transcoder>>

\* ---------------------------------------------------------- specifications
\* Scheduler.__init__ in an environment with some output files already there
InitScheduler ==
    /\ pending_tasks = <<>>
    /\ running_tasks = <<>>
    /\ started_at = 0
    /\ now = 0
    /\ tasks_completed = 0
    /\ total_weight = 0
    /\ done_weight = 0
    /\ nscheduled = 0
    /\ procs = {}
    /\ dropped = {}
    /\ effects = <<>>
    /\ term_calls = <<>>
    /\ terminations = 0
    /\ term_raised = FALSE
    /\ call_log = <<>>
    /\ poll_ret = "none"
    /\ status_logged = FALSE
    /\ pc = "discover"
    /\ exit_status = None
    /\ ndirs_done = 0
    /\ loop_i = 0
    /\ InitSubprocessManager
    /\ InitToolRun

\* one directory holds all the files; no --progress
OneDirectory ==
    /\ layout = <<Len(source)>>
    /\ progress = 0

\* the command line and the output directory of a run
InitRun ==
    /\ InitScheduler
    /\ source \in Sources
    /\ max_tasks \in 1..MaxParallel
    /\ dry_run \in BOOLEAN
    /\ skip_existing \in BOOLEAN
    /\ files \in Existing
    /\ out_dir \in BOOLEAN
    /\ files # {} => out_dir

\* without -v the log level is ERROR
Init ==
    /\ InitRun
    /\ verbose = FALSE
    /\ OneDirectory

Next ==
    \/ \E w \in Range(source) : Schedule(w)
    \/ Poll
    \/ GracefulTermination
    \/ \E i \in 1..MaxParallel, rc \in ReturnCodes : EncoderExit(i, rc)
    \/ \E id \in 1..nscheduled : DecoderExit(id)
    \/ \E id \in 1..nscheduled : EncoderWrites(id)
    \/ Tick

Spec == Init /\ [][Next]_vars

\* the scenario of three jobs of weights 10, 20, 30, with one slot or two
InitLifo ==
    /\ InitScheduler
    /\ source = <<10, 20, 30>>
    /\ max_tasks \in {1, 2}
    /\ dry_run \in BOOLEAN
    /\ skip_existing \in BOOLEAN
    /\ files \in {{}, {2}}
    /\ out_dir = TRUE
    /\ verbose = FALSE
    /\ OneDirectory

SpecLifo == InitLifo /\ [][Next]_vars

\* a dry run over a job source long enough for guesstimate to give an ETA
EtaJobs == EtaMinTasks + 2

EtaSources ==
    {[n \in 1..EtaJobs |-> 10],
     [n \in 1..EtaJobs |-> 0],
     [n \in 1..EtaJobs |-> IF n % 3 = 0 THEN 0 ELSE 10 * (n % 3)]}

InitEta ==
    /\ InitScheduler
    /\ source \in EtaSources
    /\ max_tasks \in {2, EtaBatch}
    /\ dry_run = TRUE
    /\ skip_existing = TRUE
    /\ files \in {{}, {1, 2}}
    /\ out_dir = TRUE
    /\ verbose = FALSE
    /\ OneDirectory

NextEta ==
    \/ \E n \in {EtaBatch, Len(source) - nscheduled} : ScheduleTasks(n)
    \/ Poll
    \/ Tick

SpecEta == InitEta /\ [][NextEta]_vars

\* schedule calls and repeated poll calls, no cancellation; every started
\* encoder exits in finite time
NextLive ==
    \/ \E w \in Range(source) : Schedule(w)
    \/ Poll
    \/ \E i \in 1..MaxParallel, rc \in ReturnCodes : EncoderExit(i, rc)
    \/ \E id \in 1..nscheduled : DecoderExit(id)
    \/ \E id \in 1..nscheduled : EncoderWrites(id)

SpecLive ==
    /\ Init
    /\ [][NextLive]_vars
    /\ WF_vars(Poll)
    /\ WF_vars(\E i \in 1..MaxParallel, rc \in ReturnCodes : EncoderExit(i, rc))

\* the same calls without fairness: schedule, poll and the processes
SpecRun == Init /\ [][NextLive]_vars

\* the three-job scenario under schedule, poll and the processes only
SpecLifoRun == InitLifo /\ [][NextLive]_vars

\* a run with -vv: logger.info lines are emitted
InitVerbose ==
    /\ InitRun
    /\ verbose = TRUE
    /\ OneDirectory

SpecVerbose == InitVerbose /\ [][NextLive]_vars

\* the directory trees explored: the files of a run in one directory, in two,
\* and in two with a directory without flac files between them
Layouts(n) == {<<n>>, <<1, n - 1>>, <<1, 0, n - 1>>}

\* number of tasks scan_dir has yielded when it finishes its k-th directory
RECURSIVE DirEnd(_)
DirEnd(k) == IF k = 0 THEN 0 ELSE DirEnd(k - 1) + layout[k]

\* scan_dir calls heartbeat() when the files of the directory it walks have
\* all been yielded (and the variant that calls it after every file)
HeartbeatDue_PerFile(scheduled, done_dirs) ==
    done_dirs < Len(layout)

HeartbeatDue(scheduled, done_dirs) ==
    /\ done_dirs < Len(layout)
    /\ scheduled = DirEnd(done_dirs + 1)

\* __main__: discovery (schedule_tasks over scan_dir, whose heartbeat is
\* Scheduler.poll), then "while scheduler.poll()", with KeyboardInterrupt
\* handled by graceful_termination and any other exception by the bare except
\* scan_dir yields the next task of the directory it walks and schedule_tasks
\* schedules it
MainSchedule ==
    /\ pc = "discover"
    /\ ndirs_done < Len(layout)
    /\ ~HeartbeatDue(nscheduled, ndirs_done)
    /\ \E w \in Range(source) : Schedule(w)

\* scan_dir has yielded the files of a directory: heartbeat()
MainHeartbeat ==
    /\ pc = "discover"
    /\ HeartbeatDue(nscheduled, ndirs_done)
    /\ Scheduler_poll
    /\ ndirs_done' = ndirs_done + 1
    /\ UNCHANGED <<pc, exit_status, layout, progress, loop_i, tool,
                   toolrun>>

\* the job source is exhausted: schedule_tasks returns, i = 0
MainDiscovered ==
    /\ pc = "discover"
    /\ ndirs_done = Len(layout)
    /\ pc' = "loop"
    /\ loop_i' = 0
    /\ UNCHANGED <<pending_tasks, running_tasks, max_tasks, started_at,
                   tasks_completed, total_weight, done_weight, dry_run,
                   skip_existing, now, source, nscheduled, files, out_dir,
                   procs, dropped, effects, term_calls, terminations,
                   term_raised, call_log, poll_ret, verbose, status_logged,
                   exit_status, layout, ndirs_done, progress, tool,
                   toolrun>>

\* the test of the while loop; when poll returns False the script ends, else
\* i += incr and the status line is due when i >= 20
MainPoll ==
    /\ pc = "loop"
    /\ Scheduler_poll
    /\ IF poll_ret' = "True"
       THEN /\ loop_i' = loop_i + progress
            /\ pc' = IF loop_i' >= ProgressEvery THEN "print" ELSE "loop"
            /\ exit_status' = None
       ELSE /\ loop_i' = loop_i
            /\ pc' = "done"
            /\ exit_status' = 0
    /\ UNCHANGED <<layout, ndirs_done, progress, tool,
                   toolrun>>

\* the status line: i = 0, guesstimate(), 100*done / (done+pending); a
\* ZeroDivisionError goes to the bare except
MainProgress ==
    /\ pc = "print"
    /\ loop_i' = 0
    /\ pc' = IF \/ Scheduler_guesstimate.eta.kind = "ZeroDivisionError"
                \/ Scheduler_guesstimate.done + Scheduler_guesstimate.pending = 0
             THEN "except" ELSE "loop"
    /\ UNCHANGED <<pending_tasks, running_tasks, max_tasks, started_at,
                   tasks_completed, total_weight, done_weight, dry_run,
                   skip_existing, now, source, nscheduled, files, out_dir,
                   procs, dropped, effects, term_calls, terminations,
                   term_raised, call_log, poll_ret, verbose, status_logged,
                   exit_status, layout, ndirs_done, progress, tool,
                   toolrun>>

\* the bare except: graceful_termination, then raise ends the script
MainExcept ==
    /\ pc = "except"
    /\ Scheduler_graceful_termination
    /\ pc' = "crashed"
    /\ exit_status' = 1
    /\ UNCHANGED <<layout, ndirs_done, progress, loop_i, tool,
                   toolrun>>

\* KeyboardInterrupt inside the try block: the handler calls
\* graceful_termination and the script ends, with a traceback if that raised
MainInterrupt ==
    /\ pc \in {"discover", "loop", "print"}
    /\ Scheduler_graceful_termination
    /\ pc' = "interrupted"
    /\ exit_status' = IF term_raised' THEN 1 ELSE 0
    /\ UNCHANGED <<layout, ndirs_done, progress, loop_i, tool,
                   toolrun>>

NextMain ==
    \/ MainSchedule
    \/ MainHeartbeat
    \/ MainDiscovered
    \/ MainPoll
    \/ MainInterrupt
    \/ \E i \in 1..MaxParallel, rc \in ReturnCodes : EncoderExit(i, rc)
    \/ \E id \in 1..nscheduled : DecoderExit(id)
    \/ \E id \in 1..nscheduled : EncoderWrites(id)

\* a run without --progress over each directory tree
InitMain ==
    /\ InitRun
    /\ verbose = FALSE
    /\ layout \in Layouts(Len(source))
    /\ progress = 0

SpecMain == InitMain /\ [][NextMain]_vars

\* a run with --progress
InitProgress ==
    /\ InitRun
    /\ verbose = FALSE
    /\ layout = <<Len(source)>>
    /\ progress = 1

NextProgress ==
    \/ NextMain
    \/ MainProgress
    \/ MainExcept

SpecProgress == InitProgress /\ [][NextProgress]_vars

\* tool.py: any sequence of addSlot, addJob and poll, with the processes
\* exiting at any time; transcoder.py is not running
InitTool ==
    /\ InitScheduler
    /\ source = <<>>
    /\ max_tasks = 1
    /\ dry_run = FALSE
    /\ skip_existing = FALSE
    /\ files = {}
    /\ out_dir = FALSE
    /\ verbose = FALSE
    /\ OneDirectory

NextTool ==
    \/ AddSlot
    \/ \E kind \in JobKinds, then \in Callbacks : AddJob(kind, then)
    \/ ManagerPoll
    \/ \E id \in 1..MaxToolJobs, role \in {"main", "flac"} :
          ToolProcessExit(id, role)

SpecTool == InitTool /\ [][NextTool]_vars

\* the most jobs a run of Tool creates
MaxRunJobs == MaxPaths * (MaxDirFiles + 1)

\* tool.py run on a command line, with the processes exiting at any time
NextToolRun ==
    \/ ToolParseArgs
    \/ ToolRootPath
    \/ ToolNode
    \/ ToolDirEnd
    \/ ToolRootEnd
    \/ ToolLoop
    \/ ToolDone
    \/ \E id \in 1..MaxRunJobs, role \in {"main", "flac"} :
          ToolProcessExit(id, role)

SpecToolRun == InitTool /\ [][NextToolRun]_vars

\* ------------------------------------------------------------------ claims
\* the handle of task id in running_tasks
HandlesOf(id) == {running_tasks[i] : i \in {k \in 1..Len(running_tasks) :
                                             running_tasks[k].id = id}}

\* the ids of call_log whose call returned a handle
Started == SelectSeq(call_log, LAMBDA id : id \notin dropped)

\* C1: after every poll (every state lies between two calls, poll being one
\* step) the number of handles in running_tasks is at most the concurrency
\* limit.
ConcurrencyBound == Len(running_tasks) <= max_tasks

\* a poll has filled every slot and left a task pending
ConcurrencyBound_Witness ==
    /\ poll_ret = "True"
    /\ Len(running_tasks) = max_tasks
    /\ Len(pending_tasks) > 0

\* C2: with poll called again and again and every encoder exiting in finite
\* time, pending_tasks and running_tasks end up empty for good and the last
\* poll has returned False.
EventuallyDrained ==
    <>[](pending_tasks = <<>> /\ running_tasks = <<>> /\ poll_ret = "False")

\* every task of the source was scheduled, one completed, and all is drained
EventuallyDrained_Witness ==
    /\ nscheduled = Len(source)
    /\ tasks_completed > 0
    /\ pending_tasks = <<>> /\ running_tasks = <<>> /\ poll_ret = "False"

\* one step calls tasks in last-scheduled-first order: each task called is the
\* pending task with the largest id among those not called earlier in the step
LifoStep ==
    \A k \in (Len(call_log) + 1)..Len(call_log') :
        LET earlier == {call_log'[m] : m \in (Len(call_log) + 1)..(k - 1)}
            cand == Ids(pending_tasks) \ earlier
        IN  /\ call_log'[k] \in cand
            /\ \A id \in cand : id <= call_log'[k]

\* C3: admission is LIFO: every task poll calls is the most recently scheduled
\* task still pending; with weights 10, 20, 30 scheduled in that order before
\* the first poll and one slot, the weight-30 task is called first, then the
\* weight-20 task, then the weight-10 task, and they are started in that order.
AdmissionLifo ==
    /\ [][LifoStep]_vars
    /\ [][(call_log = <<>> /\ nscheduled = 3 /\ call_log' # <<>>)
            => source[call_log'[1]] = 30]_vars
    /\ [](Len(call_log) >= 1 /\ source[call_log[1]] = 30
            => /\ \A k \in 1..Len(call_log) : source[call_log[k]] = 40 - 10 * k
               /\ \A k \in 1..Len(Started) : \A m \in 1..(k - 1) :
                      source[Started[m]] > source[Started[k]])

\* with one slot the three tasks were started in the order 30, 20, 10
AdmissionLifo_Witness ==
    /\ max_tasks = 1
    /\ call_log = <<3, 2, 1>>
    /\ dropped = {}
    /\ tasks_completed = 3

\* C4: graceful_termination leaves running_tasks and pending_tasks empty and
\* has invoked term() exactly once on every handle that was running.
TerminateAllClears ==
    [][terminations' = terminations + 1
        => /\ running_tasks' = <<>>
           /\ pending_tasks' = <<>>
           /\ \A id \in Ids(running_tasks) :
                  term_calls'[id] = term_calls[id] + 1]_vars

\* C5: term() on a handle of weight > 0 leaves no output file at its
\* destination; term() on a handle of weight 0 changes nothing on the
\* filesystem.
TerminateRemovesOutput ==
    [][\A id \in Ids(running_tasks) :
          term_calls'[id] > term_calls[id]
          => \A h \in HandlesOf(id) :
                 IF h.weight > 0 THEN id \notin files'
                 ELSE files' = files /\ out_dir' = out_dir]_vars

\* C6: a handle made by skip_existing for an existing output file polls 0, has
\* weight 0, and starting its task wrote nothing and spawned no process.
SkipExistingIsFree ==
    \A i \in 1..Len(running_tasks) :
        LET h == running_tasks[i]
        IN  (h.skipped /\ h.in_pipe = "none")
            => /\ TaskHandle_poll(h) = 0
               /\ h.weight = 0
               /\ effects[h.id] = {}

\* C7: a task whose start raised has no live decoder: the decoder spawned
\* before the encoder failed to start was killed before the error left the
\* constructor.
NoLeakedDecoder == \A id \in dropped : <<id, "flac">> \notin procs

\* a start raised after its decoder had been spawned
NoLeakedDecoder_Witness == \E id \in dropped : "flac" \in effects[id]

\* C8: guesstimate gives no ETA while tasks_completed < 10; with
\* tasks_completed >= 10 and done_weight > 0 its ETA is a quotient that is
\* finite, not negative, and equal to
\* (total_weight - done_weight) / (done_weight / elapsed).
EtaContract ==
    LET eta == Scheduler_guesstimate.eta
        elapsed == now - started_at
    IN  /\ tasks_completed < 10 => eta = NoEta
        /\ (tasks_completed >= 10 /\ done_weight > 0)
             => /\ eta.kind = "value"
                /\ eta.den > 0
                /\ eta.num >= 0
                /\ eta.num * done_weight
                     = (total_weight - done_weight) * elapsed * eta.den

\* ten tasks have completed, weight is done and weight is left
EtaContract_Witness ==
    /\ tasks_completed >= 10
    /\ done_weight > 0
    /\ total_weight > done_weight
    /\ Scheduler_guesstimate.eta.num > 0

\* C9: done_weight never decreases: after any call, poll included, it is at
\* least what it was before.
DoneWeightMonotone == [][done_weight' >= done_weight]_vars

\* a poll has added the weight of a completed handle
DoneWeightMonotone_Witness == done_weight > 0 /\ tasks_completed > 0

\* C10: while no start of a task has failed, total_weight >= done_weight.
TotalCoversDone == dropped = {} => total_weight >= done_weight

\* no start failed, weight is done, and nothing is left to do
TotalCoversDone_Witness ==
    /\ dropped = {}
    /\ done_weight > 0
    /\ total_weight = done_weight

\* the running handles whose poll() reports a returncode
Terminal == SelectSeq(running_tasks, LAMBDA h : TaskHandle_poll(h) # None)

\* C11: a poll removes every running handle whose poll() reports a returncode,
\* zero or not, from running_tasks, counts each once in tasks_completed, adds
\* its weight to done_weight and does not put it back into pending_tasks; the
\* handles still running stay, and pending tasks are started while a slot is
\* free.
FailureCounted ==
    [][Poll =>
         /\ \A id \in Ids(Terminal) :
                id \notin Ids(running_tasks') /\ id \notin Ids(pending_tasks')
         /\ tasks_completed' = tasks_completed + Len(Terminal)
         /\ done_weight' = done_weight + SumWeights(Terminal)
         /\ \A h \in Range(running_tasks) :
                TaskHandle_poll(h) = None => h \in Range(running_tasks')
         /\ pending_tasks' # <<>>
                => ~SlotFree(Len(running_tasks'), max_tasks)]_vars

\* an encoder that failed (it left no output file) was counted as completed
\* while another task is running
FailureCounted_Witness ==
    /\ terminations = 0
    /\ ~dry_run
    /\ tasks_completed >= 1
    /\ Len(running_tasks) > 0
    /\ \E k \in 1..Len(call_log) :
          LET id == call_log[k]
          IN  /\ "encoder" \in effects[id]
              /\ id \notin files
              /\ id \notin dropped
              /\ id \notin Ids(running_tasks)
              /\ id \notin Ids(pending_tasks)

\* C12: a task whose start raised is neither pending nor running, no task is
\* called twice, and the poll in which a start raised still returns a value
\* and ends only when no slot is free or nothing is pending.
StartFailureDropped ==
    /\ [](\A id \in dropped :
              id \notin Ids(pending_tasks) /\ id \notin Ids(running_tasks))
    /\ [](\A k, m \in 1..Len(call_log) : k # m => call_log[k] # call_log[m])
    /\ [][(Poll /\ dropped' # dropped)
            => /\ poll_ret' \in {"True", "False"}
               /\ pending_tasks' # <<>>
                    => ~SlotFree(Len(running_tasks'), max_tasks)]_vars

\* with one slot, the start of task 2 raised and the same poll started task 1
StartFailureDropped_Witness ==
    /\ max_tasks = 1
    /\ call_log = <<2, 1>>
    /\ dropped = {2}
    /\ Ids(running_tasks) = {1}

\* C13 as stated: the caller of poll learns from the returned value whether
\* anything changed, so two polls that return the same value agree on
\* `changed` (with -vv: on whether the status line was logged).
PollReportsChanged ==
    [][(Poll /\ verbose /\ poll_ret # "none" /\ poll_ret' = poll_ret)
         => status_logged' = status_logged]_vars

\* C13 amended: poll returns one value, which is True exactly when
\* |running_tasks| + |pending_tasks| > 0 at the end of the cycle.
PollReportsOutstanding ==
    [][Poll =>
         /\ poll_ret' \in {"True", "False"}
         /\ poll_ret' = "True"
              <=> Len(running_tasks') + Len(pending_tasks') > 0]_vars

\* a poll changed something (it reaped the last handle) and returned False
PollReportsOutstanding_Witness ==
    /\ poll_ret = "False"
    /\ verbose /\ status_logged
    /\ tasks_completed > 0
    /\ pending_tasks = <<>> /\ running_tasks = <<>>

\* C14: schedule(task) appends the task at the end of pending_tasks, adds its
\* weight to total_weight, and leaves running_tasks, tasks_completed and
\* done_weight alone; it calls no task and spawns no process.
ScheduleFrame ==
    [][(\E w \in Range(source) : Schedule(w))
         => /\ pending_tasks' = Append(pending_tasks,
                                       [id |-> nscheduled + 1,
                                        weight |-> source[nscheduled + 1]])
            /\ total_weight' = total_weight + source[nscheduled + 1]
            /\ UNCHANGED <<running_tasks, tasks_completed, done_weight,
                           call_log, procs, files, out_dir>>]_vars

\* a task of weight > 0 was scheduled behind a pending one while one runs
ScheduleFrame_Witness ==
    /\ nscheduled = 2
    /\ Len(pending_tasks) = 2
    /\ pending_tasks[2].id = 2
    /\ source[2] > 0
    /\ total_weight = source[1] + source[2]

\* C15: after a KeyboardInterrupt the program has called graceful_termination
\* and exits with a non-zero status; a run that completes exits with 0.
ExitStatusContract ==
    /\ pc = "interrupted" => terminations > 0 /\ exit_status \notin {None, 0}
    /\ pc = "done" => exit_status = 0

\* C16: once graceful_termination has been called, no task is called and
\* tasks_completed and done_weight do not change any more.
TerminatedAbsorbing ==
    [][terminations > 0
         => /\ call_log' = call_log
            /\ tasks_completed' = tasks_completed
            /\ done_weight' = done_weight]_vars

\* C17: graceful_termination stops the decoder and the encoder of every
\* handle in running_tasks, whatever its weight.
TerminateSignalsAll ==
    [][terminations' = terminations + 1
         => \A id \in Ids(running_tasks) :
                <<id, "flac">> \notin procs' /\ <<id, "encoder">> \notin procs']_vars

\* C18: in a dry run, calling a task spawns no decoder and no encoder, its
\* handle polls 0 at once, and nothing is created on the filesystem.
DryRunTouchesNothing ==
    dry_run =>
        /\ \A i \in 1..Len(effects) :
              effects[i] \cap {"flac", "encoder", "makedirs"} = {}
        /\ \A i \in 1..Len(running_tasks) :
              TaskHandle_poll(running_tasks[i]) = 0

\* the weights the job source gave to the tasks of ids
RECURSIVE NominalWeight(_)
NominalWeight(ids) ==
    IF ids = {} THEN 0
    ELSE LET id == CHOOSE x \in ids : TRUE
         IN  source[id] + NominalWeight(ids \ {id})

\* C19: a start that raises counts the task as completed: tasks_completed
\* increases by one for it and its weight is added to done_weight.
StartFailureCounted ==
    [][dropped' # dropped
         => /\ tasks_completed' >= tasks_completed + Cardinality(dropped' \ dropped)
            /\ done_weight' >= done_weight + NominalWeight(dropped' \ dropped)]_vars

\* the handles a step appended to running_tasks
NewHandles == SelectSeq(running_tasks', LAMBDA h : h.id \notin Ids(running_tasks))

\* C20: a poll changes total_weight by (handle.weight - task.weight) for
\* every task it turns into a handle, and by nothing else; the handle of a
\* task skipped for its existing output has weight 0.
WeightReconciled ==
    [][Poll =>
         /\ total_weight' = total_weight + SumWeights(NewHandles)
                              - NominalWeight(Ids(NewHandles))
         /\ \A h \in Range(NewHandles) :
                (h.skipped /\ h.in_pipe = "none") => h.weight = 0]_vars

\* the only task scheduled had weight > 0 and was skipped: nothing is left of
\* its weight in total_weight
WeightReconciled_Witness ==
    /\ nscheduled = 1
    /\ source[1] > 0
    /\ Len(running_tasks) = 1
    /\ running_tasks[1].skipped /\ running_tasks[1].in_pipe = "none"
    /\ total_weight = 0

\* the weight total_weight carries beyond what is done, pending or running
Overstatement ==
    total_weight
      - (done_weight + SumWeights(pending_tasks) + SumWeights(running_tasks))

\* C21 as stated: total_weight is the sum of the weights of the pending tasks
\* and the running handles only.
TotalIsOutstanding ==
    total_weight = SumWeights(pending_tasks) + SumWeights(running_tasks)

\* C21 amended: until graceful_termination is called, total_weight is the
\* sum of the weights of the pending tasks and the running handles plus
\* done_weight plus the weights of the tasks whose start raised.
TotalIncludesDone ==
    terminations = 0
        => total_weight - done_weight - NominalWeight(dropped)
             = SumWeights(pending_tasks) + SumWeights(running_tasks)

\* a handle of weight > 0 has completed while another task is outstanding
TotalIncludesDone_Witness ==
    /\ terminations = 0
    /\ done_weight > 0
    /\ SumWeights(pending_tasks) + SumWeights(running_tasks) > 0
    /\ total_weight > SumWeights(pending_tasks) + SumWeights(running_tasks)

\* C22: a poll that only drops tasks leaves total_weight as it was; every drop
\* adds the weight of the dropped task to what total_weight overstates, and no
\* other step changes the overstatement.
DropKeepsWeight ==
    /\ [][(Poll /\ dropped' # dropped /\ NewHandles = <<>>)
            => total_weight' = total_weight]_vars
    /\ [][Overstatement' = Overstatement + NominalWeight(dropped' \ dropped)]_vars

\* a task of weight > 0 was dropped, and later another one completed
DropKeepsWeight_Witness ==
    /\ NominalWeight(dropped) > 0
    /\ tasks_completed > 0
    /\ pending_tasks = <<>> /\ running_tasks = <<>>
    /\ total_weight = done_weight + NominalWeight(dropped)

\* C23: a handle leaves running_tasks in a poll only when both its decoder
\* and its encoder have exited.
RemovedWhenBothExited ==
    [][Poll => \A id \in Ids(running_tasks) \ Ids(running_tasks') :
                  <<id, "flac">> \notin procs /\ <<id, "encoder">> \notin procs]_vars

\* C24: no task is called twice, whatever happened to its first call, and a
\* task that was called is not pending.
CalledAtMostOnce ==
    /\ \A id \in 1..nscheduled :
          Cardinality({k \in 1..Len(call_log) : call_log[k] = id}) <= 1
    /\ \A k \in 1..Len(call_log) : call_log[k] \notin Ids(pending_tasks)

\* one start raised, one encoder failed, and later polls called nothing more
CalledAtMostOnce_Witness ==
    /\ terminations = 0
    /\ ~dry_run
    /\ Len(call_log) = 2
    /\ Cardinality(dropped) = 1
    /\ tasks_completed = 1
    /\ poll_ret = "False"
    /\ \E k \in 1..2 : call_log[k] \notin dropped /\ call_log[k] \notin files

\* C26: total_weight = weights of the pending tasks + weights of the running
\* handles + done_weight + weights of the tasks whose start raised.
WeightConservation ==
    total_weight = SumWeights(pending_tasks) + SumWeights(running_tasks)
                     + done_weight + NominalWeight(dropped)

\* every term of the sum but the pending one is > 0
WeightConservation_Witness ==
    /\ SumWeights(running_tasks) > 0
    /\ done_weight > 0
    /\ NominalWeight(dropped) > 0

\* C27: the number of tasks scheduled is |pending_tasks| + |running_tasks| +
\* tasks_completed + the number of tasks whose start raised.
JobConservation ==
    nscheduled = Len(pending_tasks) + Len(running_tasks) + tasks_completed
                   + Cardinality(dropped)

\* three tasks, one of each kind: running, completed, dropped
JobConservation_Witness ==
    /\ nscheduled = 3
    /\ Len(running_tasks) > 0
    /\ tasks_completed > 0
    /\ Cardinality(dropped) > 0

\* C28: when a poll returns, pending_tasks is non-empty only if
\* |running_tasks| equals max_tasks.
WorkConserving ==
    [][Poll => (pending_tasks' # <<>> => Len(running_tasks') = max_tasks)]_vars

\* with one slot, the start of task 3 raised and the same poll started task 2
\* and left task 1 pending
WorkConserving_Witness ==
    /\ max_tasks = 1
    /\ dropped = {3}
    /\ Ids(running_tasks) = {2}
    /\ Ids(pending_tasks) = {1}
    /\ poll_ret = "True"

\* C25: during discovery poll is called exactly when the tasks of the
\* directory being walked have all been scheduled, once per directory, and it
\* leaves at most max_tasks handles running; tasks are scheduled for one
\* directory at a time, and the polling loop starts after the last heartbeat.
DiscoveryInterleaves ==
    /\ [][(pc = "discover" /\ pc' = "discover" /\ Scheduler_poll)
            => /\ ndirs_done < Len(layout)
               /\ nscheduled = DirEnd(ndirs_done + 1)
               /\ ndirs_done' = ndirs_done + 1
               /\ Len(running_tasks') <= max_tasks]_vars
    /\ [](pc = "discover"
            => /\ DirEnd(ndirs_done) <= nscheduled
               /\ ndirs_done < Len(layout) => nscheduled <= DirEnd(ndirs_done + 1))
    /\ [](pc = "loop" => ndirs_done = Len(layout) /\ nscheduled = Len(source))

\* a task of the first directory has completed and the tasks of the last
\* directory are not scheduled yet
DiscoveryInterleaves_Witness ==
    /\ pc = "discover"
    /\ tasks_completed >= 1
    /\ nscheduled < Len(source)
    /\ ndirs_done < Len(layout)

\* C29: whenever the loop computes the status line, done + pending > 0, so
\* the computation does not raise and the bare except does not cancel the run.
ProgressComputable ==
    /\ pc = "print" => tasks_completed + Len(pending_tasks) > 0
    /\ pc # "except" /\ pc # "crashed"

\* the jobs whose forked instance is alive
RunningJobs == {id \in 1..njobs : <<id, "main">> \in tool_procs}

RunEnded == tool_pc \in {"done", "returned"}

\* C31: the callback of a job is called at most once and only when the
\* job's process has exited, and when a run with replay gain is over no
\* callback is still to be called: the replay-gain jobs have completed, and
\* none of the jobs added by their callbacks waits or runs (busy() is false).
CallbackInvokedOnce ==
    /\ \A id \in 1..njobs :
          /\ cb_calls[id] <= 1
          /\ cb_calls[id] = 1 =>
                id \in Range(assigned) /\ <<id, "main">> \notin tool_procs
    /\ (replay_gain /\ RunEnded) =>
          CallbacksDue = 0 /\ ~SubprocessManager_busy

====
